---------------------------- MODULE Spec2Model ----------------------------
(***************************************************************************)
(* check-versions (src/src/main.rs): for a list of GitHub repositories,   *)
(* fetch each repository's package-lock.json with at most                 *)
(* PARALLEL_REQUESTS requests in the buffered stream, resolve the locked  *)
(* version of one npm package from each body, and print one row per       *)
(* repository in input order.                                              *)
(*                                                                         *)
(* Two specifications share the module:                                   *)
(*   Spec         the whole run of main(): dispatch, the spawned fetch    *)
(*                tasks, the in-order collection through the map_ok       *)
(*                closure and the report loop;                            *)
(*   SpecResolve  the map_ok closure alone, applied to every body of the  *)
(*                payload model below.                                    *)
(* Positions are 1-based here (json[1] is the code's json[0]).            *)
(***************************************************************************)
EXTENDS Integers, Sequences, FiniteSets, TLC

VARIABLES
    json,          \* main.rs:74  the identifier list read from the file
    package_name,  \* main.rs:68  the package whose version is looked up
    env_token,     \* the GHP_TOKEN variable of the process environment
    limit,         \* main.rs:110 the argument of buffered()
    pc,            \* where the main task is: collect, report, done, panicked
    next,          \* how many items the map closure (main.rs:90) has taken
    env_reads,     \* how many times env::var("GHP_TOKEN") was evaluated
    requests,      \* the requests built so far, one per dispatched position
    task_pc,       \* per position: where the spawned task (main.rs:101) is
    status,        \* per position: the HTTP status received (0: none yet)
    outcome,       \* per position: what the JoinHandle resolves to
    versions,      \* main.rs:173 the items collected so far
    i,             \* main.rs:174 the report loop's index
    stdout,        \* the lines written with println!
    stderr,        \* the lines written with eprintln!
    overtaken,     \* history: a task finished while an earlier one had not
    probe,         \* SpecResolve: the body handed to the closure
    probe_out      \* SpecResolve: what the closure did with it

vars == <<json, package_name, env_token, limit, pc, next, env_reads, requests,
          task_pc, status, outcome, versions, i, stdout, stderr, overtaken, probe, probe_out>>

(***************************************************************************)
(* Bounds of the model.                                                    *)
(***************************************************************************)
\* the longest identifier list
MaxRepos == 2
\* the buffered() limits tried besides the program's own: 1..MaxLimit
MaxLimit == 1
\* the longest list and the largest limit of the runs that fill the queue
MaxWindowRepos == 3
MaxWindowLimit == 2

\* main.rs:62
PARALLEL_REQUESTS == 64

(***************************************************************************)
(* Response bodies.  A body is what str::from_utf8 and serde_json can tell *)
(* apart in it:                                                            *)
(*   t = "bad_utf8"    bytes that are not UTF-8                            *)
(*   t = "not_json"    UTF-8 text that is not a JSON document (the empty   *)
(*                     body is one)                                        *)
(*   t = "json_other"  a JSON document none of the structs accepts (a      *)
(*                     number, a string, ...)                              *)
(*   t = "object"      a JSON object, with its lockfileVersion,            *)
(*                     dependencies and packages fields; other fields are  *)
(*                     ignored by serde and left out                       *)
(* lockfileVersion: absent, null, an i32 (n), or anything else ("notint":  *)
(* a string, a fraction, a number outside i32).  A map field: absent, a    *)
(* map of entries, or "invalid" (not an object, or with an entry serde     *)
(* rejects for Packages, such as a numeric version).  An entry is its      *)
(* version string, or NoVersion when `version` is absent or null.          *)
(***************************************************************************)
NoVersion == "<none>"
Versions == {"1.2.3", "2.0.0"}
Entries == Versions \cup {NoVersion}
Keys == {"foo", "node_modules/foo", "bar"}
PackageNames == {"foo", "bar"}
LockfileVersions == {1, 2, 3}

EmptyMap == [k \in {} |-> NoVersion]
NoField == [k |-> "absent", m |-> EmptyMap]
BadField == [k |-> "invalid", m |-> EmptyMap]
MapOf(f) == [k |-> "map", m |-> f]

LvAbsent == [k |-> "absent", n |-> 0]
LvNull == [k |-> "null", n |-> 0]
LvNotInt == [k |-> "notint", n |-> 0]
LvInt(n) == [k |-> "int", n |-> n]

LvValues == {LvAbsent, LvNull, LvNotInt} \cup {LvInt(n) : n \in LockfileVersions}
MapValues ==
    {NoField, BadField}
        \cup {MapOf(f) : f \in UNION {[S -> Entries] : S \in SUBSET Keys}}

Raw(t) == [t |-> t, lv |-> LvAbsent, dependencies |-> NoField, packages |-> NoField]
Object(lv, deps, pkgs) ==
    [t |-> "object", lv |-> lv, dependencies |-> deps, packages |-> pkgs]

Payloads ==
    {Raw("bad_utf8"), Raw("not_json"), Raw("json_other")}
        \cup {Object(lv, d, p) : lv \in LvValues, d \in MapValues, p \in MapValues}

(***************************************************************************)
(* serde's view of a body (main.rs:16-45).                                 *)
(***************************************************************************)
\* main.rs:115  str::from_utf8(&body_bytes)
FromUtf8(body) == [ok |-> body.t # "bad_utf8"]

\* main.rs:123  serde_json::from_str::<PartialPackageLockJson>: Option<i32>
\* takes an absent field and null as None, an i32 as Some, and rejects the rest
ParsePartial(body) ==
    IF body.t # "object" \/ body.lv.k = "notint"
    THEN [ok |-> FALSE, some |-> FALSE, n |-> 0]
    ELSE [ok |-> TRUE, some |-> body.lv.k = "int", n |-> body.lv.n]

\* main.rs:133  serde_json::from_str::<PackageLockJsonV1>: `dependencies` is
\* required and every entry must be a Packages
ParseV1(body) ==
    IF body.t = "object" /\ body.dependencies.k = "map"
    THEN [ok |-> TRUE, m |-> body.dependencies.m]
    ELSE [ok |-> FALSE, m |-> EmptyMap]

\* main.rs:153  serde_json::from_str::<PackageLockJson>: `packages` is required
ParseV2(body) ==
    IF body.t = "object" /\ body.packages.k = "map"
    THEN [ok |-> TRUE, m |-> body.packages.m]
    ELSE [ok |-> FALSE, m |-> EmptyMap]

\* mutant of NodeModulesKey: the bare package name is the key
NodeModulesKeyBare(name) == name

\* main.rs:161  format!("node_modules/{}", package_name)
NodeModulesKey(name) == "node_modules/" \o name

\* main.rs:112
not_found == "-------"

(***************************************************************************)
(* The map_ok closure, main.rs:111-171.  Its result here: whether it       *)
(* panicked, the String it returned, the eprintln! it made ("" for none)   *)
(* and the return statement it left by:                                    *)
(*   "found"       main.rs:143, 164                                        *)
(*   "not_found"   main.rs:146, 149, 167, 170                              *)
(*   "unreadable"  main.rs:119, 127, 137, 157                              *)
(***************************************************************************)
Returned(ret, diag, site) == [panic |-> FALSE, ret |-> ret, diag |-> diag, site |-> site]
Panicked == [panic |-> TRUE, ret |-> "", diag |-> "", site |-> "panic"]

\* main.rs:141-149 and 162-170: map.get(key), then the entry's version
Lookup(m, key) ==
    IF key \in DOMAIN m /\ m[key] # NoVersion
    THEN Returned(m[key], "", "found")
    ELSE Returned(not_found, "", "not_found")

\* mutant of ResolveV1: the V1 map is searched with the V2Plus key
ResolveV1Nested(body, name) ==
    IF ~ParseV1(body).ok
    THEN Returned(not_found, "Error", "unreadable")
    ELSE Lookup(ParseV1(body).m, NodeModulesKey(name))

\* main.rs:133-150
ResolveV1(body, name) ==
    IF ~ParseV1(body).ok
    THEN Returned(not_found, "Error", "unreadable")
    ELSE Lookup(ParseV1(body).m, name)

\* mutant of ResolveV2: a failed parse returns the placeholder silently
ResolveV2Silent(body, name) ==
    IF ~ParseV2(body).ok
    THEN Returned(not_found, "", "not_found")
    ELSE Lookup(ParseV2(body).m, NodeModulesKey(name))

\* main.rs:153-170
ResolveV2(body, name) ==
    IF ~ParseV2(body).ok
    THEN Returned(not_found, "Error", "unreadable")
    ELSE Lookup(ParseV2(body).m, NodeModulesKey(name))

\* main.rs:115-171, the closure after body.expect
Resolve(body, name) ==
    IF ~FromUtf8(body).ok
    THEN Returned(not_found, "Error converting body to UTF-8", "unreadable")
    ELSE IF ~ParsePartial(body).ok
    THEN Returned(not_found, "Error parsing lockfile version", "unreadable")
    ELSE IF ParsePartial(body).some /\ ParsePartial(body).n = 1
    THEN ResolveV1(body, name)
    ELSE ResolveV2(body, name)

\* mutant of MapOkClosure: a transport error gives the placeholder
MapOkClosureLenient(fetched, name) ==
    IF ~fetched.ok
    THEN Returned(not_found, "", "not_found")
    ELSE Resolve(fetched.bytes, name)

\* main.rs:111-171: `fetched` is the task's output, Ok(bytes) or Err(hyper
\* error); body.expect panics on the Err
MapOkClosure(fetched, name) ==
    IF ~fetched.ok THEN Panicked ELSE Resolve(fetched.bytes, name)

(***************************************************************************)
(* The inputs of a run.  An identifier is its characters; a request is the *)
(* identifier its URI was formatted from (main.rs:79) and the token of its *)
(* Authorization header (main.rs:94).                                      *)
(***************************************************************************)
Idents == {<<"o", "/", "r">>, <<"s">>, <<"o", "/", "t", "/", "x">>}
NoToken == ""
Tokens == {"ghp_a"}
\* 404, and 200 for every other status: the code tells no others apart
Statuses == {200, 404}

RECURSIVE SeqsUpTo(_, _)
SeqsUpTo(S, n) ==
    IF n = 0
    THEN {<<>>}
    ELSE SeqsUpTo(S, n - 1)
             \cup {Append(s, x) : s \in {t \in SeqsUpTo(S, n - 1) : Len(t) = n - 1}, x \in S}

\* the bodies the remote returns in the whole-run specification
BodyV1Found == Object(LvInt(1), MapOf("foo" :> "1.2.3"), NoField)
BodyV2Missing == Object(LvInt(3), NoField, MapOf("bar" :> "1.2.3"))
\* an empty body, and the API's JSON error message ({"message": ...})
BodyEmpty == Raw("not_json")
BodyApiError == Object(LvAbsent, NoField, NoField)
RemoteBodies == {BodyV1Found, BodyV2Missing, BodyEmpty, BodyApiError}
\* the bodies that come with a status: a 404 carries no lockfile
BodiesWith(s) == IF s = 404 THEN {BodyEmpty, BodyApiError} ELSE RemoteBodies

NoBytes == Raw("none")
NoProbeOut == [panic |-> FALSE, ret |-> "", diag |-> "", site |-> "none"]

\* what a JoinHandle resolves to: Result<Result<Bytes, hyper::Error>, JoinError>
Pending == [join |-> "pending", ok |-> FALSE, bytes |-> NoBytes]
JoinError == [join |-> "err", ok |-> FALSE, bytes |-> NoBytes]
TransportError == [join |-> "ok", ok |-> FALSE, bytes |-> NoBytes]
Fetched(body) == [join |-> "ok", ok |-> TRUE, bytes |-> body]

\* an item of main.rs:173's Vec: Ok(String) or Err(JoinError)
OkItem(v) == [ok |-> TRUE, v |-> v]
ErrItem == [ok |-> FALSE, v |-> ""]

\* a written line; pos is the position it is about
Line(kind, pos, version, name) ==
    [kind |-> kind, pos |-> pos, version |-> version, name |-> name]

\* main.rs:177  json[i].split('/').collect()
RECURSIVE SplitAcc(_, _, _)
SplitAcc(s, cur, acc) ==
    IF s = <<>>
    THEN Append(acc, cur)
    ELSE IF Head(s) = "/"
    THEN SplitAcc(Tail(s), <<>>, Append(acc, cur))
    ELSE SplitAcc(Tail(s), Append(cur, Head(s)), acc)

Split(s) == SplitAcc(s, <<>>, <<>>)

Positions == 1..Len(json)
PanicStates == {"panic_unwrap", "panic_expect", "panic_index"}
Running == pc \in {"collect", "report"}

Init ==
    /\ json \in SeqsUpTo(Idents, MaxRepos)
    /\ package_name = "foo"
    /\ env_token \in {NoToken} \cup Tokens
    /\ limit \in (1..MaxLimit) \cup {PARALLEL_REQUESTS}
    /\ pc = "collect"
    /\ next = 0
    /\ env_reads = 0
    /\ requests = <<>>
    /\ task_pc = [p \in Positions |-> "unspawned"]
    /\ status = [p \in Positions |-> 0]
    /\ outcome = [p \in Positions |-> Pending]
    /\ versions = <<>>
    /\ i = 1
    /\ stdout = <<>>
    /\ stderr = <<>>
    /\ overtaken = FALSE
    /\ probe = NoBytes
    /\ probe_out = NoProbeOut

(***************************************************************************)
(* The main task.  Buffered::poll_next first takes items from the mapped   *)
(* stream while its queue holds fewer than `limit` futures (yielded ones   *)
(* excepted, finished ones included), then yields the queue's head once    *)
(* that future is ready.                                                   *)
(***************************************************************************)
\* the futures in buffered()'s queue
InQueue == next - Len(versions)

\* mutant of MayDispatch: the queue's length is not checked
MayDispatchUnbounded == next < Len(json)

\* mutant of MayDispatch: only the futures still running count against the limit
MayDispatchByRunning ==
    /\ next < Len(json)
    /\ Cardinality({p \in Positions : task_pc[p] \in {"requesting", "reading"}}) < limit

\* whether buffered() may take one more item from the mapped stream
MayDispatch == next < Len(json) /\ InQueue < limit

\* mutant of Dispatch: an unset variable gives an empty token
DispatchDefaultToken ==
    /\ pc = "collect"
    /\ MayDispatch
    /\ env_reads' = env_reads + 1
    /\ next' = next + 1
    /\ requests' = Append(requests, [repo |-> json[next + 1], token |-> env_token])
    /\ task_pc' = [task_pc EXCEPT ![next + 1] = "requesting"]
    /\ UNCHANGED <<json, package_name, env_token, limit, pc, status, outcome,
                   versions, i, stdout, stderr, overtaken, probe, probe_out>>

\* main.rs:90-109: the map closure on the next uri; env::var(..).unwrap()
\* panics when the variable is unset, otherwise the task is spawned
Dispatch ==
    /\ pc = "collect"
    /\ MayDispatch
    /\ env_reads' = env_reads + 1
    /\ IF env_token = NoToken
       THEN /\ pc' = "panic_unwrap"
            /\ UNCHANGED <<next, requests, task_pc>>
       ELSE /\ next' = next + 1
            /\ requests' = Append(requests, [repo |-> json[next + 1], token |-> env_token])
            /\ task_pc' = [task_pc EXCEPT ![next + 1] = "requesting"]
            /\ pc' = pc
    /\ UNCHANGED <<json, package_name, env_token, limit, status, outcome,
                   versions, i, stdout, stderr, overtaken, probe, probe_out>>

\* mutant of QueueHead: the newest future of the queue is yielded
QueueNewest == next

\* the position buffered() yields next: the oldest future of its queue
QueueHead == Len(versions) + 1

\* the diagnostics of one closure call, as lines of stderr
DiagLines(r, p) == IF r.diag = "" THEN <<>> ELSE <<Line(r.diag, p, "", <<>>)>>

\* main.rs:110-173: buffered() yields the head of its queue, map_ok applies
\* the closure to an Ok, and collect pushes the item
Yield ==
    /\ pc = "collect"
    /\ ~MayDispatch
    /\ Len(versions) < next
    /\ LET p == QueueHead
           r == MapOkClosure(outcome[p], package_name)
       IN /\ outcome[p].join # "pending"
          /\ IF outcome[p].join = "err"
             THEN /\ versions' = Append(versions, ErrItem)
                  /\ UNCHANGED <<pc, stderr>>
             ELSE IF r.panic
             THEN /\ pc' = "panic_expect"
                  /\ UNCHANGED <<versions, stderr>>
             ELSE /\ versions' = Append(versions, OkItem(r.ret))
                  /\ stderr' = stderr \o DiagLines(r, p)
                  /\ pc' = pc
    /\ UNCHANGED <<json, package_name, env_token, limit, next, env_reads, requests,
                   task_pc, status, outcome, i, stdout, overtaken, probe, probe_out>>

\* mutant of CollectDone: the report starts at the first collected item
CollectDoneEarly ==
    /\ pc = "collect"
    /\ Len(versions) >= 1
    /\ pc' = "report"
    /\ i' = 1
    /\ UNCHANGED <<json, package_name, env_token, limit, next, env_reads, requests,
                   task_pc, status, outcome, versions, stdout, stderr, overtaken, probe, probe_out>>

\* main.rs:173: the stream ends, collect returns
CollectDone ==
    /\ pc = "collect"
    /\ next = Len(json)
    /\ Len(versions) = Len(json)
    /\ pc' = "report"
    /\ i' = 1
    /\ UNCHANGED <<json, package_name, env_token, limit, next, env_reads, requests,
                   task_pc, status, outcome, versions, stdout, stderr, overtaken, probe, probe_out>>

\* mutant of ReportIdent: the identifiers are indexed by the rows printed
ReportIdentByRow(k) == json[Cardinality({j \in 1..k : versions[j].ok})]

\* main.rs:174 enumerate(): the identifier an item is printed with
ReportIdent(k) == json[k]

\* main.rs:174-182: one turn of the report loop; repos[1] panics when the
\* identifier has no '/'
ReportRow ==
    /\ pc = "report"
    /\ i <= Len(versions)
    /\ LET repos == Split(ReportIdent(i))
       IN IF ~versions[i].ok
          THEN /\ stderr' = Append(stderr, Line("JoinError", i, "", <<>>))
               /\ i' = i + 1
               /\ UNCHANGED <<pc, stdout>>
          ELSE IF Len(repos) < 2
          THEN /\ pc' = "panic_index"
               /\ UNCHANGED <<i, stdout, stderr>>
          ELSE /\ stdout' = Append(stdout, Line("row", i, versions[i].v, repos[2]))
               /\ i' = i + 1
               /\ UNCHANGED <<pc, stderr>>
    /\ UNCHANGED <<json, package_name, env_token, limit, next, env_reads, requests,
                   task_pc, status, outcome, versions, overtaken, probe, probe_out>>

\* main.rs:184
Finish ==
    /\ pc = "report"
    /\ i > Len(versions)
    /\ pc' = "done"
    /\ UNCHANGED <<json, package_name, env_token, limit, next, env_reads, requests,
                   task_pc, status, outcome, versions, i, stdout, stderr, overtaken, probe, probe_out>>

(***************************************************************************)
(* The spawned tasks, main.rs:101-107.  They run on the runtime's workers  *)
(* while the main task runs, and end with the process.                     *)
(***************************************************************************)
\* mutant of NoticeLines: no status is reported
NoticeLinesNone(s, p) == <<>>

\* main.rs:103-105: the line a task prints for a response with status s
NoticeLines(s, p) == IF s = 404 THEN <<Line("404", p, "", json[p])>> ELSE <<>>

\* where println! writes
PrintlnTo(out, lines) == out \o lines

\* whether task p, finishing now, finishes before an earlier position's task
Overtakes(p) == \E q \in 1..(p - 1) : task_pc[q] # "finished"

\* mutant of TaskResponse: a transport error is answered by a second request
TaskResponseRetry(p) ==
    /\ Running
    /\ task_pc[p] = "requesting"
    /\ \/ /\ requests' = Append(requests, requests[p])
          /\ UNCHANGED <<task_pc, status, outcome, overtaken, stdout>>
       \/ \E s \in Statuses :
             /\ status' = [status EXCEPT ![p] = s]
             /\ stdout' = PrintlnTo(stdout, NoticeLines(s, p))
             /\ task_pc' = [task_pc EXCEPT ![p] = "reading"]
             /\ UNCHANGED <<outcome, overtaken, requests>>
    /\ UNCHANGED <<json, package_name, env_token, limit, pc, next, env_reads,
                   versions, i, stderr, probe, probe_out>>

\* main.rs:102-105: client.request resolves; `?` returns the error
TaskResponse(p) ==
    /\ Running
    /\ task_pc[p] = "requesting"
    /\ \/ /\ task_pc' = [task_pc EXCEPT ![p] = "finished"]
          /\ outcome' = [outcome EXCEPT ![p] = TransportError]
          /\ overtaken' = (overtaken \/ Overtakes(p))
          /\ UNCHANGED <<status, stdout>>
       \/ \E s \in Statuses :
             /\ status' = [status EXCEPT ![p] = s]
             /\ stdout' = PrintlnTo(stdout, NoticeLines(s, p))
             /\ task_pc' = [task_pc EXCEPT ![p] = "reading"]
             /\ UNCHANGED <<outcome, overtaken>>
    /\ UNCHANGED <<json, package_name, env_token, limit, pc, next, env_reads, requests,
                   versions, i, stderr, probe, probe_out>>

\* main.rs:106: body::to_bytes resolves
TaskBody(p) ==
    /\ Running
    /\ task_pc[p] = "reading"
    /\ task_pc' = [task_pc EXCEPT ![p] = "finished"]
    /\ \/ outcome' = [outcome EXCEPT ![p] = TransportError]
       \/ \E b \in BodiesWith(status[p]) :
             outcome' = [outcome EXCEPT ![p] = Fetched(b)]
    /\ overtaken' = (overtaken \/ Overtakes(p))
    /\ UNCHANGED <<json, package_name, env_token, limit, pc, next, env_reads, requests,
                   status, versions, i, stdout, stderr, probe, probe_out>>

\* main.rs:101: the task panics or is cancelled; its JoinHandle gives Err
TaskFail(p) ==
    /\ Running
    /\ task_pc[p] \in {"requesting", "reading"}
    /\ task_pc' = [task_pc EXCEPT ![p] = "finished"]
    /\ outcome' = [outcome EXCEPT ![p] = JoinError]
    /\ overtaken' = (overtaken \/ Overtakes(p))
    /\ UNCHANGED <<json, package_name, env_token, limit, pc, next, env_reads, requests,
                   status, versions, i, stdout, stderr, probe, probe_out>>

Next ==
    \/ Dispatch
    \/ Yield
    \/ CollectDone
    \/ ReportRow
    \/ Finish
    \/ \E p \in Positions : TaskResponse(p)
    \/ \E p \in Positions : TaskBody(p)
    \/ \E p \in Positions : TaskFail(p)

Spec == Init /\ [][Next]_vars

(***************************************************************************)
(* The runs that fill buffered()'s queue: longer lists of one well-formed  *)
(* identifier, the credential set, the same program.                       *)
(***************************************************************************)
WindowIdent == <<"o", "/", "r">>

InitWindow ==
    /\ json \in {[k \in 1..n |-> WindowIdent] : n \in 0..MaxWindowRepos}
    /\ package_name = "foo"
    /\ env_token \in Tokens
    /\ limit \in (1..MaxWindowLimit) \cup {PARALLEL_REQUESTS}
    /\ pc = "collect"
    /\ next = 0
    /\ env_reads = 0
    /\ requests = <<>>
    /\ task_pc = [p \in Positions |-> "unspawned"]
    /\ status = [p \in Positions |-> 0]
    /\ outcome = [p \in Positions |-> Pending]
    /\ versions = <<>>
    /\ i = 1
    /\ stdout = <<>>
    /\ stderr = <<>>
    /\ overtaken = FALSE
    /\ probe = NoBytes
    /\ probe_out = NoProbeOut

SpecWindow == InitWindow /\ [][Next]_vars

(***************************************************************************)
(* The closure alone, on every body of the payload model.                  *)
(***************************************************************************)
InitResolve ==
    /\ json = <<>>
    /\ package_name \in PackageNames
    /\ env_token = NoToken
    /\ limit = PARALLEL_REQUESTS
    /\ pc = "closure"
    /\ next = 0
    /\ env_reads = 0
    /\ requests = <<>>
    /\ task_pc = <<>>
    /\ status = <<>>
    /\ outcome = <<>>
    /\ versions = <<>>
    /\ i = 1
    /\ stdout = <<>>
    /\ stderr = <<>>
    /\ overtaken = FALSE
    /\ probe \in Payloads
    /\ probe_out = NoProbeOut

\* main.rs:111-171 applied to Ok(probe)
RunClosure ==
    /\ pc = "closure"
    /\ probe_out' = MapOkClosure(Fetched(probe), package_name)
    /\ stderr' = stderr \o DiagLines(probe_out', 1)
    /\ pc' = "returned"
    /\ UNCHANGED <<json, package_name, env_token, limit, next, env_reads, requests,
                   task_pc, status, outcome, versions, i, stdout, overtaken, probe>>

NextResolve == RunClosure

SpecResolve == InitResolve /\ [][NextResolve]_vars

(***************************************************************************)
(* What the claims speak of.                                               *)
(***************************************************************************)
\* the tasks spawned and not yet completed
InFlight == {p \in Positions : task_pc[p] \in {"requesting", "reading"}}

\* the position's fetch returned bytes
GotBytes(p) == outcome[p].join = "ok" /\ outcome[p].ok

\* the item position p's fetch stands for in the collected Vec
ItemFor(p) ==
    IF outcome[p].join = "err"
    THEN ErrItem
    ELSE OkItem(Resolve(outcome[p].bytes, package_name).ret)

\* the identifier has a second component for repos[1]
WellFormed(p) == Len(Split(json[p])) >= 2

\* the row of position p: its own version beside its own short name
ExpectedRow(p) == Line("row", p, ItemFor(p).v, Split(json[p])[2])

RowsOf(out) == SelectSeq(out, LAMBDA l : l.kind = "row")

\* the rows of the positions 1..n, in input order, JoinError slots left out
RECURSIVE ExpectedRows(_)
ExpectedRows(n) ==
    IF n = 0
    THEN <<>>
    ELSE IF outcome[n].join = "err"
    THEN ExpectedRows(n - 1)
    ELSE Append(ExpectedRows(n - 1), ExpectedRow(n))

\* how many lines of `out` are of this kind and about position p
CountLines(out, kind, p) ==
    Cardinality({n \in 1..Len(out) : out[n].kind = kind /\ out[n].pos = p})

Collected == pc \in {"report", "done", "panic_index"}
Terminated == pc \in {"done"} \cup PanicStates

(***************************************************************************)
(* C1  Order preservation.  Whatever order the fetches complete in: the    *)
(* request of position k is built from json[k]; the k-th collected item is *)
(* the one computed from the fetch of position k; once collect has         *)
(* returned there are Len(json) items; and the rows printed so far are the *)
(* rows of the positions reported so far, in input order, each pairing the *)
(* version resolved for its position with the short name of that           *)
(* position's identifier.                                                  *)
(***************************************************************************)
C1_OrderPreservation ==
    /\ Len(requests) = next
    /\ \A k \in 1..next : requests[k].repo = json[k]
    /\ Len(versions) <= next
    /\ \A k \in 1..Len(versions) : versions[k] = ItemFor(k)
    /\ Collected => Len(versions) = Len(json)
    /\ \A k \in 1..(i - 1) : versions[k].ok => WellFormed(k)
    /\ RowsOf(stdout) = ExpectedRows(i - 1)
    /\ pc = "done" => i = Len(json) + 1

\* a finished run of two repositories whose second fetch completed first and
\* whose two rows differ in version and in name
C1_Witness ==
    /\ pc = "done"
    /\ Len(json) = 2
    /\ overtaken
    /\ Len(RowsOf(stdout)) = 2
    /\ RowsOf(stdout)[1].version # RowsOf(stdout)[2].version
    /\ RowsOf(stdout)[1].name # RowsOf(stdout)[2].name

(***************************************************************************)
(* C2  Admission bound.  In every reachable state the number of tasks      *)
(* spawned and not yet completed is at most the limit given to buffered(). *)
(***************************************************************************)
C2_AdmissionBound == Cardinality(InFlight) <= limit

\* the limit binds: it is reached while an identifier is still undispatched
C2_Witness ==
    /\ Cardinality(InFlight) = limit
    /\ next < Len(json)

(***************************************************************************)
(* C3  Transport-failure isolation, as claimed: in a run that has ended,   *)
(* where some fetch ended in a transport error, every identifier whose     *)
(* fetch returned bytes has its row.  (The identifiers are well formed, so *)
(* that only the transport error is in play.)                              *)
(***************************************************************************)
C3_TransportFailureIsolated ==
    (/\ Terminated
     /\ \A p \in Positions : WellFormed(p)
     /\ \E k \in Positions : outcome[k] = TransportError)
        => \A j \in Positions :
               GotBytes(j) => \E n \in 1..Len(stdout) : stdout[n] = ExpectedRow(j)

(***************************************************************************)
(* C4  Task-failure isolation.  A JoinError never ends the run: the only   *)
(* panic of the collection is on a transport error and the only panic of   *)
(* the report loop is on an Ok item.  Of the slots reported so far, a      *)
(* JoinError slot has exactly one JoinError line and no row, and every     *)
(* other slot has exactly one row, which is its own version beside the     *)
(* short name of its own identifier; a run that ends normally has reported *)
(* every slot.                                                             *)
(***************************************************************************)
C4_TaskFailureIsolated ==
    /\ pc = "panic_expect" => outcome[QueueHead] = TransportError
    /\ pc = "panic_index" => versions[i].ok
    /\ \A k \in 1..Len(versions) : (outcome[k] = JoinError) = ~versions[k].ok
    /\ \A k \in 1..(i - 1) :
          IF outcome[k] = JoinError
          THEN /\ CountLines(stderr, "JoinError", k) = 1
               /\ CountLines(stdout, "row", k) = 0
          ELSE /\ CountLines(stderr, "JoinError", k) = 0
               /\ CountLines(stdout, "row", k) = 1
               /\ WellFormed(k)
               /\ \E n \in 1..Len(stdout) : stdout[n] = ExpectedRow(k)
    /\ \A n \in 1..Len(stderr) : stderr[n].kind = "JoinError" => stderr[n].pos < i
    /\ pc = "done" => i = Len(json) + 1

\* a finished run whose first task failed and whose second identifier, a
\* different one, has the only row
C4_Witness ==
    /\ pc = "done"
    /\ Len(json) = 2
    /\ json[1] # json[2]
    /\ WellFormed(1)
    /\ outcome[1] = JoinError
    /\ GotBytes(2)
    /\ stdout = <<ExpectedRow(2)>>
    /\ CountLines(stderr, "JoinError", 1) = 1

(***************************************************************************)
(* The closure's result in the claims' words.                              *)
(***************************************************************************)
\* Found(v): returned v, no diagnostic
IsFound(v) ==
    /\ probe_out = Returned(v, "", "found")
    /\ stderr = <<>>

\* NotFound: the placeholder, no diagnostic
IsNotFound ==
    /\ probe_out = Returned(not_found, "", "not_found")
    /\ stderr = <<>>

\* Unreadable: the placeholder and one diagnostic line
IsUnreadable ==
    /\ ~probe_out.panic
    /\ probe_out.site = "unreadable"
    /\ probe_out.ret = not_found
    /\ probe_out.diag # ""
    /\ stderr = <<Line(probe_out.diag, 1, "", <<>>)>>

\* the outcome the claims give for a lookup of `key` in map field `f`
LookedUp(f, key) ==
    IF f.k # "map"
    THEN IsUnreadable
    ELSE IF key \in DOMAIN f.m /\ f.m[key] \in Versions
    THEN IsFound(f.m[key])
    ELSE IsNotFound

(***************************************************************************)
(* C5  Resolver, V1 branch.  For a JSON object whose lockfileVersion is    *)
(* the integer 1 the result depends on `dependencies` alone: Found(v) when *)
(* it has an entry with version v under the bare package name, NotFound    *)
(* when the entry is absent or has no version, Unreadable when the body    *)
(* does not parse under the V1 shape.                                      *)
(***************************************************************************)
C5_ResolverV1 ==
    (pc = "returned" /\ probe.t = "object" /\ probe.lv = LvInt(1))
        => LookedUp(probe.dependencies, package_name)

\* a V1 lockfile with both maps: the version comes from `dependencies`
C5_Witness ==
    /\ pc = "returned"
    /\ package_name = "foo"
    /\ probe = Object(LvInt(1), MapOf("foo" :> "1.2.3"),
                      MapOf("node_modules/foo" :> "2.0.0"))
    /\ probe_out.ret = "1.2.3"

(***************************************************************************)
(* C6  Resolver, V2Plus branch.                                            *)
(*   As claimed: for a JSON object whose lockfileVersion is absent, or     *)
(*   present and different from 1, the result depends on `packages` alone, *)
(*   looked up under node_modules/<package name>.                          *)
(*   As amended: the same for a lockfileVersion that is absent, null or an *)
(*   i32 other than 1; a lockfileVersion of any other kind fails the       *)
(*   envelope parse and the result is Unreadable whatever `packages`       *)
(*   holds.                                                                *)
(***************************************************************************)
\* C6 as claimed: every lockfileVersion other than the integer 1 leads to the
\* lookup of node_modules/<package name> in `packages`
C6_ResolverV2Plus_AsClaimed ==
    (pc = "returned" /\ probe.t = "object" /\ probe.lv # LvInt(1))
        => LookedUp(probe.packages, "node_modules/" \o package_name)

\* C6 as amended: an absent, null or i32 lockfileVersion other than 1 leads to
\* that lookup; any other lockfileVersion ends Unreadable at the envelope parse
C6_ResolverV2Plus ==
    /\ (/\ pc = "returned"
        /\ probe.t = "object"
        /\ probe.lv # LvInt(1)
        /\ probe.lv.k \in {"absent", "null", "int"})
           => LookedUp(probe.packages, "node_modules/" \o package_name)
    /\ (pc = "returned" /\ probe.t = "object" /\ probe.lv.k = "notint")
           => IsUnreadable /\ probe_out.diag = "Error parsing lockfile version"

\* a version 2 lockfile with both maps: the version comes from `packages`
C6_Witness ==
    /\ pc = "returned"
    /\ package_name = "foo"
    /\ probe = Object(LvInt(2), MapOf("foo" :> "1.2.3"),
                      MapOf("node_modules/foo" :> "2.0.0"))
    /\ probe_out.ret = "2.0.0"

(***************************************************************************)
(* C7  Resolver totality.  The closure never panics on a body: it leaves   *)
(* by exactly one of the three kinds of return; a Found carries a version  *)
(* and no diagnostic, a NotFound the placeholder and no diagnostic, an     *)
(* Unreadable the placeholder and one diagnostic; and it is Unreadable     *)
(* exactly when the UTF-8 decoding or one of the two JSON passes fails.    *)
(***************************************************************************)
\* the second pass's required map is missing or malformed
SecondPassFails(b) ==
    IF b.lv = LvInt(1) THEN b.dependencies.k # "map" ELSE b.packages.k # "map"

\* the UTF-8 decoding, the envelope pass or the second pass fails
ParseFails(b) ==
    \/ b.t \in {"bad_utf8", "not_json", "json_other"}
    \/ b.lv.k = "notint"
    \/ SecondPassFails(b)

\* C7: on every body the closure returns without a panic, as exactly one of
\* Found, NotFound and Unreadable, and as Unreadable (with its diagnostic)
\* exactly when a parse fails
C7_ResolverTotal ==
    pc = "returned"
        => /\ ~probe_out.panic
           /\ \/ IsUnreadable
              \/ IsNotFound
              \/ probe_out.ret \in Versions /\ IsFound(probe_out.ret)
           /\ ParseFails(probe) = IsUnreadable

\* bytes that are not UTF-8 end Unreadable with the decoding diagnostic
C7_Witness ==
    /\ pc = "returned"
    /\ probe = Raw("bad_utf8")
    /\ IsUnreadable
    /\ probe_out.diag = "Error converting body to UTF-8"

(***************************************************************************)
(* C8  404 handling.                                                       *)
(*   As claimed: a position whose response had status 404 has its notice,  *)
(*   does not abort the run, and its body resolves to NotFound: the        *)
(*   placeholder with no parse-error diagnostic.                           *)
(*   As amended: it has its notice, does not abort the run, and its body   *)
(*   goes through the closure like any other body; an empty body or the    *)
(*   API's JSON error message (no `packages`) gives the placeholder with   *)
(*   one parse-error diagnostic, that is Unreadable.  The other positions  *)
(*   keep the items of their own fetches.                                  *)
(***************************************************************************)
ParseDiagnostics ==
    {"Error converting body to UTF-8", "Error parsing lockfile version", "Error"}

\* the parse-error diagnostics about position p
ParseDiagCount(p) ==
    Cardinality({n \in 1..Len(stderr) :
                    stderr[n].pos = p /\ stderr[n].kind \in ParseDiagnostics})

\* the notice of position p was written, once, on either channel
NoticeEmitted(p) ==
    CountLines(stdout, "404", p) + CountLines(stderr, "404", p) = 1

\* position p's 404 response has been read and its item collected
Collected404(p) == status[p] = 404 /\ GotBytes(p) /\ p <= Len(versions)

\* the run did not panic on position p's item
NotAbortedAt(p) == ~(pc = "panic_expect" /\ QueueHead = p /\ GotBytes(p))

\* C8 as claimed: a 404 position has its notice, does not abort the run, and
\* its item is the placeholder with no parse-error diagnostic
C8_NotFoundOn404_AsClaimed ==
    \A p \in Positions :
        status[p] = 404
            => /\ NoticeEmitted(p)
               /\ NotAbortedAt(p)
               /\ Collected404(p)
                    => versions[p] = OkItem(not_found) /\ ParseDiagCount(p) = 0

\* C8 as amended: a 404 position has its notice, does not abort the run, and
\* its item is what the closure makes of its body: for the bodies a 404
\* carries, the placeholder with one parse-error diagnostic; the other
\* positions keep their own items
C8_BodyResolvedOn404 ==
    \A p \in Positions :
        status[p] = 404
            => /\ NoticeEmitted(p)
               /\ NotAbortedAt(p)
               /\ Collected404(p)
                    => /\ versions[p] = ItemFor(p)
                       /\ ParseDiagCount(p)
                              = Len(DiagLines(Resolve(outcome[p].bytes, package_name), p))
                       /\ outcome[p].bytes \in {BodyEmpty, BodyApiError}
                              => /\ versions[p] = OkItem(not_found)
                                 /\ ParseDiagCount(p) = 1
               /\ \A q \in 1..Len(versions) : q # p => versions[q] = ItemFor(q)

\* a finished run: the first repository answered 404 with the API's error
\* message and has a placeholder row and a diagnostic, the second has its
\* version
C8_Witness ==
    /\ pc = "done"
    /\ Len(json) = 2
    /\ status = <<404, 200>>
    /\ outcome[1] = Fetched(BodyApiError)
    /\ outcome[2] = Fetched(BodyV1Found)
    /\ ParseDiagCount(1) = 1
    /\ RowsOf(stdout) = <<ExpectedRow(1), ExpectedRow(2)>>
    /\ ExpectedRow(1).version = not_found
    /\ ExpectedRow(2).version = "1.2.3"

(***************************************************************************)
(* C9  Channel separation, as claimed: every line of stdout is a report    *)
(* row, and no diagnostic is written there.                                *)
(***************************************************************************)
C9_ChannelSeparation ==
    /\ \A n \in 1..Len(stdout) : stdout[n].kind = "row"
    /\ \A n \in 1..Len(stderr) : stderr[n].kind # "row"

(***************************************************************************)
(* C10  Malformed identifier is not fatal, as claimed: a run in which      *)
(* every fetch returned bytes ends normally with one line per identifier,  *)
(* whatever the number of '/' in the identifiers.                          *)
(***************************************************************************)
C10_MalformedIdentifierNotFatal ==
    (Terminated /\ \A p \in Positions : GotBytes(p))
        => /\ pc = "done"
           /\ \A p \in Positions : CountLines(stdout, "row", p) = 1

(***************************************************************************)
(* C11  One attempt per position.  The requests built in a run are one per *)
(* spawned task, the tasks spawned are those of the positions 1..next, and *)
(* the k-th request is built from json[k]: no position is requested twice, *)
(* whatever its fetch ended in, and none is skipped, also when two         *)
(* positions hold the same identifier.  A position has an outcome exactly  *)
(* when its task has finished, each collected item is the one computed     *)
(* from its own position's outcome, and once collect has returned there    *)
(* are Len(json) requests and Len(json) items.                             *)
(***************************************************************************)
C11_OneAttemptPerPosition ==
    /\ next <= Len(json)
    /\ Len(requests) = Cardinality({p \in Positions : task_pc[p] # "unspawned"})
    /\ \A p \in Positions : (task_pc[p] # "unspawned") = (p <= next)
    /\ \A k \in 1..Len(requests) : requests[k].repo = json[k]
    /\ \A p \in Positions : (task_pc[p] = "finished") = (outcome[p] # Pending)
    /\ \A k \in 1..Len(versions) : versions[k] = ItemFor(k)
    /\ Collected => Len(requests) = Len(json) /\ Len(versions) = Len(json)

\* a finished run of one identifier given twice: two requests for it, two
\* fetches with different bodies, two rows with different versions
C11_Witness ==
    /\ pc = "done"
    /\ Len(json) = 2
    /\ json[1] = json[2]
    /\ Len(requests) = 2
    /\ requests[1] = requests[2]
    /\ GotBytes(1)
    /\ GotBytes(2)
    /\ outcome[1] # outcome[2]
    /\ Len(RowsOf(stdout)) = 2
    /\ RowsOf(stdout)[1].version # RowsOf(stdout)[2].version

(***************************************************************************)
(* C12  Determinism of the report, as claimed: what a finished run has     *)
(* written to stdout is a function of the identifier list, the package and *)
(* the remote responses alone, the same for every completion order.  The   *)
(* function is the one the run without overtaking computes: the notices of *)
(* the positions answered 404, in input order, and then the rows, in input *)
(* order.  Two outputs are compared by their text.                         *)
(***************************************************************************)
\* what is read on a channel: the lines without the position they are about
TextOf(out) ==
    [n \in 1..Len(out) |->
        [kind |-> out[n].kind, version |-> out[n].version, name |-> out[n].name]]

\* the 404 notices of the positions 1..n, in input order
RECURSIVE ExpectedNotices(_)
ExpectedNotices(n) ==
    IF n = 0
    THEN <<>>
    ELSE ExpectedNotices(n - 1) \o NoticeLines(status[n], n)

C12_DeterministicOutput ==
    pc = "done" =>
        TextOf(stdout) =
            TextOf(ExpectedNotices(Len(json)) \o ExpectedRows(Len(json)))

(***************************************************************************)
(* C13  Eager admission, as claimed: while the stream is being collected   *)
(* and an identifier is still undispatched, a completed fetch frees its    *)
(* place whichever position it has: as soon as fewer tasks than the limit  *)
(* are still running the main task can go on, by admitting the next        *)
(* identifier or by yielding a result and admitting then; it never waits   *)
(* for an earlier position that is still running.                          *)
(***************************************************************************)
C13_EagerAdmission_AsClaimed ==
    (/\ pc = "collect"
     /\ next < Len(json)
     /\ Cardinality(InFlight) < limit)
        => (ENABLED Dispatch) \/ (ENABLED Yield)

(***************************************************************************)
(* C13  Admission behind the head, as the code has it: a completed fetch   *)
(* keeps its place in the queue until it is yielded, and results are       *)
(* yielded from the head only.  While an identifier is undispatched the    *)
(* main task is blocked exactly when the queue holds `limit` futures and   *)
(* the oldest of them is still running, however many later ones have       *)
(* completed; otherwise it can admit the next identifier or yield the      *)
(* head.                                                                   *)
(***************************************************************************)
C13_AdmissionBehindHead ==
    (pc = "collect" /\ next < Len(json)) =>
        LET blocked == /\ next - Len(versions) = limit
                       /\ outcome[Len(versions) + 1] = Pending
        IN /\ blocked => ~(ENABLED Dispatch) /\ ~(ENABLED Yield)
           /\ ~blocked => (ENABLED Dispatch) \/ (ENABLED Yield)

\* the queue is full, a later position's fetch has completed, the head's is
\* still running and an identifier waits: fewer tasks than the limit run
C13_Witness ==
    /\ pc = "collect"
    /\ next < Len(json)
    /\ next - Len(versions) = limit
    /\ outcome[Len(versions) + 1] = Pending
    /\ \E p \in (Len(versions) + 2)..next : outcome[p] # Pending
    /\ Cardinality(InFlight) < limit

(***************************************************************************)
(* C14  Bulk synchronization.  While a report row is on stdout or a        *)
(* JoinError line on stderr, every input position has been dispatched, its *)
(* task has finished and its item has been collected: the report loop      *)
(* starts after collect has returned, so the first row follows the last    *)
(* fetch.                                                                  *)
(***************************************************************************)
C14_BulkSynchronization ==
    (\/ \E n \in 1..Len(stdout) : stdout[n].kind = "row"
     \/ \E n \in 1..Len(stderr) : stderr[n].kind = "JoinError")
        => /\ Collected
           /\ next = Len(json)
           /\ \A p \in Positions : task_pc[p] = "finished" /\ outcome[p] # Pending
           /\ Len(versions) = Len(json)

\* the first of two rows has just been printed; the fetch of the first
\* position had completed before the fetch of the second
C14_Witness ==
    /\ pc = "report"
    /\ Len(json) = 2
    /\ i = 2
    /\ ~overtaken
    /\ WellFormed(1)
    /\ GotBytes(1)
    /\ GotBytes(2)
    /\ stdout = <<ExpectedRow(1)>>

(***************************************************************************)
(* C15  Credential read once, as claimed: the environment is read at most  *)
(* once in a run, every request built was built after that one read, and   *)
(* every request carries the value read.                                   *)
(***************************************************************************)
C15_CredentialReadOnce ==
    /\ env_reads <= 1
    /\ requests # <<>> => env_reads = 1
    /\ \A k \in 1..Len(requests) : requests[k].token = env_token

(***************************************************************************)
(* C16  Termination and stall, as claimed.  When the fetch of every        *)
(* position has completed with bytes the run is not stuck short of its     *)
(* end: either it can still take a step or it has ended normally with one  *)
(* row per position.  And while the fetch of any position has not          *)
(* completed, the run has not ended and no row has been printed.           *)
(***************************************************************************)
C16_TerminationAndStall ==
    /\ (\A p \in Positions : GotBytes(p)) =>
           \/ ENABLED Next
           \/ pc = "done" /\ Len(RowsOf(stdout)) = Len(json)
    /\ (\E p \in Positions : outcome[p] = Pending) =>
           pc # "done" /\ RowsOf(stdout) = <<>>

(***************************************************************************)
(* C17  In-order sliding-window dispatch.  In every reachable state the    *)
(* positions dispatched are 1..next and the positions yielded are a prefix *)
(* of them, the k-th yielded item being position k's; a dispatched         *)
(* position p has position p - limit yielded; so the positions dispatched  *)
(* and not yet yielded are the one range Len(versions)+1..next, of at most *)
(* `limit` positions, and the limit is at most PARALLEL_REQUESTS.          *)
(***************************************************************************)
C17_SlidingWindow ==
    LET dispatched == {p \in Positions : task_pc[p] # "unspawned"}
        yielded == 1..Len(versions)
    IN /\ dispatched = 1..next
       /\ yielded \subseteq dispatched
       /\ \A k \in yielded : versions[k] = ItemFor(k)
       /\ \A p \in dispatched : p > limit => (p - limit) \in yielded
       /\ dispatched \ yielded = (Len(versions) + 1)..next
       /\ Cardinality(dispatched \ yielded) <= limit
       /\ limit <= PARALLEL_REQUESTS

\* the window has slid: with limit 2 the third position was dispatched after
\* the first was yielded, and the window is the full range 2..3
C17_Witness ==
    /\ limit = 2
    /\ Len(json) = 3
    /\ next = 3
    /\ Len(versions) = 1
    /\ task_pc[2] = "finished"
    /\ task_pc[3] = "requesting"

(***************************************************************************)
(* C18  A transport error aborts the whole run.  A fetch that ended in a   *)
(* transport error is never collected as an item: when the collector       *)
(* reaches it the main task panics at body.expect.  At that panic no row   *)
(* and no JoinError line has been printed, whatever the earlier positions  *)
(* fetched; and a run that has printed a row, or has ended normally, holds *)
(* no transport error at any position.                                     *)
(***************************************************************************)
C18_TransportErrorAborts ==
    /\ \A k \in 1..Len(versions) : outcome[k] # TransportError
    /\ pc = "panic_expect" =>
           /\ Len(versions) < next
           /\ outcome[Len(versions) + 1] = TransportError
           /\ RowsOf(stdout) = <<>>
           /\ \A n \in 1..Len(stderr) : stderr[n].kind # "JoinError"
    /\ (RowsOf(stdout) # <<>> \/ pc = "done") =>
           \A p \in Positions : outcome[p] # TransportError

\* the first of two fetches returned a lock file with the package in it and
\* was collected, the second ended in a transport error: panic, no row
C18_Witness ==
    /\ pc = "panic_expect"
    /\ Len(json) = 2
    /\ WellFormed(1)
    /\ GotBytes(1)
    /\ Len(versions) = 1
    /\ versions[1].ok
    /\ versions[1].v \in Versions
    /\ outcome[2] = TransportError
    /\ RowsOf(stdout) = <<>>

(***************************************************************************)
(* C19  Missing credential.  In a run whose GHP_TOKEN is unset no request  *)
(* is ever built, no task spawned and no line written.  With a non-empty   *)
(* list the run's first step is the first request's env::var, its only     *)
(* read, and the unwrap panics there.  With an empty list the variable is  *)
(* never read and the run goes on to its normal end.                       *)
(***************************************************************************)
C19_MissingCredential ==
    env_token = NoToken =>
        /\ requests = <<>>
        /\ next = 0
        /\ \A p \in Positions : task_pc[p] = "unspawned" /\ outcome[p] = Pending
        /\ stdout = <<>>
        /\ stderr = <<>>
        /\ Len(json) > 0 =>
               \/ pc = "collect" /\ env_reads = 0 /\ ENABLED Dispatch
               \/ pc = "panic_unwrap" /\ env_reads = 1
        /\ Len(json) = 0 =>
               /\ env_reads = 0
               /\ \/ pc \in {"collect", "report"} /\ ENABLED Next
                  \/ pc = "done"

\* the run of two identifiers without the variable, after its panic
C19_Witness ==
    /\ env_token = NoToken
    /\ Len(json) = 2
    /\ pc = "panic_unwrap"
    /\ env_reads = 1
    /\ requests = <<>>

=============================================================================
